---- MODULE Spec2Model ----
(***************************************************************************)
(* Model of src/rtl-detector.js: the RTL language auto-detection script.   *)
(*                                                                         *)
(* The document root carries three pieces of state (the lang attribute,    *)
(* the dir attribute and the 'rtl-mode' class).  The script classifies the *)
(* language, applies the direction, and re-evaluates from four triggers:   *)
(* startup, a MutationObserver on the root's lang attribute, a             *)
(* MutationObserver on the body, and a one-second setInterval sweep.       *)
(*                                                                         *)
(* A language code is a sequence of one-character strings; the value       *)
(* getAttribute returns for a missing attribute is the token null.         *)
(***************************************************************************)
EXTENDS Integers, Sequences, FiniteSets, TLC

\* ------------------------------------------------------------------ bounds
\* Most mutation records the attribute observer holds undelivered.
MaxRecords == 2
\* Most deferred (setTimeout) reconciles pending at once.
MaxTimers == 1

\* Longest language code handed to the classifier on its own.
MaxCodeLen == 3

\* ------------------------------------------------------------- vocabulary
null == <<"null">>

en == <<"e", "n">>
ar == <<"a", "r">>
heIL == <<"H", "E", "-", "i", "l">>

\* The language codes the environment writes to the root element.
LangValues == {null, en, ar, heIL}

\* The dir values an external actor writes.
DirValues == {"rtl", "ltr", "auto"}

\* The states of window.translatePage: not a function, a function that
\* returns, a function that throws.
HookValues == {"absent", "ok", "throws"}

VARIABLES
  readyState,       \* document.readyState
  dclFired,         \* DOMContentLoaded has been dispatched
  scriptRan,        \* the script's top level has executed
  dclListeners,     \* listeners the script registered for DOMContentLoaded
  exported,         \* window.RTLDetector has been assigned
  lang,             \* root lang attribute
  dir,              \* root dir attribute
  marker,           \* root class list contains 'rtl-mode'
  translatePage,    \* window.translatePage
  switcherExists,   \* an element with id 'languageSwitcher' is in the page
  switcherHandlers, \* change listeners attached to it by this script
  bannerPresent,    \* an element matching '.goog-te-banner-frame' exists
  initCount,        \* invocations of initRTLDetection
  attrObservers,    \* attribute observers installed on the root
  bodyObservers,    \* child-list observers installed on the body
  sweepTimers,      \* setInterval timers installed
  records,          \* attribute names of the undelivered mutation records
  bodyPending,      \* a batch of body mutations awaits delivery
  timers,           \* pending setTimeout(detectAndApplyLayout, 500) calls
  \* history of the step that led to the current state
  last,             \* which operation it was
  hookLog,          \* the calls of window.translatePage it made
  reconciles,       \* how many times it ran detectAndApplyLayout
  uncaught,         \* whether an exception left the operation
  sweepFix,         \* what a sweep tick found and applied
  switcherValue,    \* the switcher value its change listener read
  probe,            \* the argument of its direct isRTLLanguage call
  answer,           \* and what that call returned
  lastWriter        \* who wrote dir or the class list last

vars == <<readyState, dclFired, scriptRan, dclListeners, exported, lang, dir,
          marker, translatePage, switcherExists, switcherHandlers,
          bannerPresent, initCount, attrObservers, bodyObservers, sweepTimers,
          records, bodyPending, timers, last, hookLog, reconciles, uncaught,
          sweepFix, switcherValue, probe, answer, lastWriter>>

\* --------------------------------------------------------------- classifier
RTL_LANGUAGES ==
  { <<"a", "r">>, <<"a", "r", "c">>, <<"d", "v">>, <<"f", "a">>,
    <<"h", "a">>, <<"h", "e">>, <<"k", "h", "w">>, <<"k", "s">>,
    <<"k", "u">>, <<"p", "s">>, <<"s", "d">>, <<"u", "r">>,
    <<"u", "z">>, <<"y", "i">> }

UpperToLower ==
  ("A" :> "a") @@ ("B" :> "b") @@ ("C" :> "c") @@ ("D" :> "d") @@
  ("E" :> "e") @@ ("F" :> "f") @@ ("G" :> "g") @@ ("H" :> "h") @@
  ("I" :> "i") @@ ("J" :> "j") @@ ("K" :> "k") @@ ("L" :> "l") @@
  ("M" :> "m") @@ ("N" :> "n") @@ ("O" :> "o") @@ ("P" :> "p") @@
  ("Q" :> "q") @@ ("R" :> "r") @@ ("S" :> "s") @@ ("T" :> "t") @@
  ("U" :> "u") @@ ("V" :> "v") @@ ("W" :> "w") @@ ("X" :> "x") @@
  ("Y" :> "y") @@ ("Z" :> "z")

toLowerCase(s) ==
  [i \in DOMAIN s |->
     IF s[i] \in DOMAIN UpperToLower THEN UpperToLower[s[i]] ELSE s[i]]

\* split('-')[0]: the characters before the first '-'.
RECURSIVE firstSegment(_)
firstSegment(s) ==
  IF s = <<>> \/ Head(s) = "-"
    THEN <<>>
    ELSE <<Head(s)>> \o firstSegment(Tail(s))

\* Variant: the classifier without the lower-casing.
isRTLLanguageCaseSensitive(l) ==
  IF l = null \/ l = <<>>
    THEN FALSE
    ELSE firstSegment(l) \in RTL_LANGUAGES

isRTLLanguage(l) ==
  IF l = null \/ l = <<>>
    THEN FALSE
    ELSE firstSegment(toLowerCase(l)) \in RTL_LANGUAGES

\* ------------------------------------------------------------------ the DOM
\* The root element as the operations below pass it along.
Root == [lang |-> lang, dir |-> dir, marker |-> marker, records |-> records,
         applied |-> FALSE]

\* Variant: an observer registered without restricting it to lang.
attributeFilterAll == {"lang", "dir", "class"}

\* observer.observe(html, {attributes: true, attributeFilter: ['lang']})
attributeFilter == {"lang"}

\* Variant: the callback tests for an attribute name that never occurs.
callbackMatchesLanguage(name) == name = "language"

\* mutation.type === 'attributes' && mutation.attributeName === 'lang'
callbackMatches(name) == name = "lang"

\* A write to attribute `name` of the root element: an installed observer
\* gets a record when the name passes its filter.
notify(q, name) ==
  IF attrObservers > 0 /\ name \in attributeFilter THEN Append(q, name) ELSE q

setAttribute(d, name, value) ==
  [d EXCEPT ![name] = value, !.records = notify(@, name)]

classListSet(d, present) ==
  [d EXCEPT !.marker = present, !.records = notify(@, "class")]

\* ------------------------------------------------------------------ applier
\* Variant: applyRTL that toggles the class instead of adding it.
applyRTLToggles(d) ==
  [classListSet(setAttribute(d, "dir", "rtl"), ~d.marker)
     EXCEPT !.applied = TRUE]

\* Variant: applyRTL that also re-stamps lang on the root.
applyRTLStampsLang(d) ==
  [classListSet(setAttribute(setAttribute(d, "lang", d.lang), "dir", "rtl"),
                TRUE)
     EXCEPT !.applied = TRUE]

applyRTL(d) ==
  [classListSet(setAttribute(d, "dir", "rtl"), TRUE) EXCEPT !.applied = TRUE]

\* Variant: applyLTR that forgets to remove the class.
applyLTRKeepsClass(d) ==
  [setAttribute(d, "dir", "ltr") EXCEPT !.applied = TRUE]

applyLTR(d) ==
  [classListSet(setAttribute(d, "dir", "ltr"), FALSE) EXCEPT !.applied = TRUE]

\* One call of window.translatePage, with what the root looked like then.
HookCall(d, currentLang) ==
  [arg |-> currentLang, dir |-> d.dir, marker |-> d.marker]

\* F applied to the value of x, with x evaluated once.
Bind(x, F(_)) == CHOOSE y \in {F(v) : v \in {x}} : TRUE

\* Variant: the direction decided from the dir found on the root, not from
\* the lang read now.
detectAndApplyLayoutTrustsDir(d, hook) ==
  LET currentLang == d.lang IN
  Bind(IF d.dir = "rtl" THEN applyRTL(d) ELSE applyLTR(d),
       LAMBDA applied :
         [dom   |-> applied,
          calls |-> IF hook # "absent"
                      THEN <<HookCall(applied, currentLang)>>
                      ELSE <<>>,
          n     |-> 1,
          threw |-> hook = "throws"])

\* Variant: a reconcile that writes the lower-cased primary subtag back to lang.
detectAndApplyLayoutNormalises(d, hook) ==
  LET currentLang == d.lang
      written == setAttribute(d, "lang", firstSegment(toLowerCase(currentLang)))
  IN
  Bind(IF isRTLLanguage(currentLang) THEN applyRTL(written) ELSE applyLTR(written),
       LAMBDA applied :
         [dom   |-> applied,
          calls |-> IF hook # "absent"
                      THEN <<HookCall(applied, currentLang)>>
                      ELSE <<>>,
          n     |-> 1,
          threw |-> hook = "throws"])

\* Variant: the hook called before the Applier.
detectAndApplyLayoutHookFirst(d, hook) ==
  LET currentLang == d.lang IN
  Bind(IF isRTLLanguage(currentLang) THEN applyRTL(d) ELSE applyLTR(d),
       LAMBDA applied :
         [dom   |-> applied,
          calls |-> IF hook # "absent"
                      THEN <<HookCall(d, currentLang)>>
                      ELSE <<>>,
          n     |-> 1,
          threw |-> hook = "throws"])

\* Variant: the hook called without the typeof test, so that a missing hook
\* is a TypeError.
detectAndApplyLayoutUnguarded(d, hook) ==
  LET currentLang == d.lang IN
  Bind(IF isRTLLanguage(currentLang) THEN applyRTL(d) ELSE applyLTR(d),
       LAMBDA applied :
         [dom   |-> applied,
          calls |-> IF hook # "absent"
                      THEN <<HookCall(applied, currentLang)>>
                      ELSE <<>>,
          n     |-> 1,
          threw |-> hook \in {"throws", "absent"}])

\* detectAndApplyLayout: the root afterwards, the hook calls made, and
\* whether the hook's exception left the function.
detectAndApplyLayout(d, hook) ==
  LET currentLang == d.lang IN
  Bind(IF isRTLLanguage(currentLang) THEN applyRTL(d) ELSE applyLTR(d),
       LAMBDA applied :
         [dom   |-> applied,
          calls |-> IF hook # "absent"
                      THEN <<HookCall(applied, currentLang)>>
                      ELSE <<>>,
          n     |-> 1,
          threw |-> hook = "throws"])

\* The attribute observer's callback: mutations.forEach(...).  An exception
\* thrown by detectAndApplyLayout ends the forEach and leaves the callback.
RECURSIVE observerCallback(_, _, _)
observerCallback(mutations, d, hook) ==
  IF mutations = <<>>
    THEN [dom |-> d, calls |-> <<>>, n |-> 0, threw |-> FALSE]
    ELSE IF callbackMatches(Head(mutations))
      THEN Bind(detectAndApplyLayout(d, hook),
             LAMBDA r :
               IF r.threw
                 THEN r
                 ELSE Bind(observerCallback(Tail(mutations), r.dom, hook),
                        LAMBDA rest :
                          [dom   |-> rest.dom,
                           calls |-> r.calls \o rest.calls,
                           n     |-> r.n + rest.n,
                           threw |-> rest.threw]))
      ELSE observerCallback(Tail(mutations), d, hook)

\* What an operation that only touches the root (no reconcile) reports.
Plain(d) == [dom |-> d, calls |-> <<>>, n |-> 0, threw |-> FALSE]

\* Variant: a sweep without the else-if branch.
sweepOneWay(d, hook) ==
  IF isRTLLanguage(d.lang) /\ d.dir # "rtl" THEN Plain(applyRTL(d)) ELSE Plain(d)

\* Variant: a sweep that takes only dir "ltr" for a mismatch of an RTL language.
sweepOnlyLtr(d, hook) ==
  LET shouldBeRTL == isRTLLanguage(d.lang) IN
  IF shouldBeRTL /\ d.dir = "ltr"
    THEN Plain(applyRTL(d))
    ELSE IF ~shouldBeRTL /\ d.dir = "rtl"
      THEN Plain(applyLTR(d))
      ELSE Plain(d)

\* Variant: a sweep that heals through the full reconcile.
sweepReconciling(d, hook) ==
  LET shouldBeRTL == isRTLLanguage(d.lang) IN
  IF (shouldBeRTL /\ d.dir # "rtl") \/ (~shouldBeRTL /\ d.dir = "rtl")
    THEN detectAndApplyLayout(d, hook)
    ELSE Plain(d)

\* Variant: a sweep that re-applies the direction on every tick.
sweepAlways(d, hook) ==
  IF isRTLLanguage(d.lang) THEN Plain(applyRTL(d)) ELSE Plain(applyLTR(d))

\* The body of the setInterval callback.
sweep(d, hook) ==
  LET shouldBeRTL == isRTLLanguage(d.lang) IN
  IF shouldBeRTL /\ d.dir # "rtl"
    THEN Plain(applyRTL(d))
    ELSE IF ~shouldBeRTL /\ d.dir = "rtl"
      THEN Plain(applyLTR(d))
      ELSE Plain(d)

\* initRTLDetection: the startup reconcile, then the three installations,
\* which are reached only when the reconcile returns.
initRTLDetection(d, hook) ==
  LET r == detectAndApplyLayout(d, hook) IN
  [dom       |-> r.dom,
   calls     |-> r.calls,
   n         |-> r.n,
   threw     |-> r.threw,
   installed |-> IF r.threw THEN 0 ELSE 1]

\* ------------------------------------------------------------ bookkeeping
NoFix == [op |-> "none", was |-> "null", by |-> "none"]

\* The root as an operation leaves it; `writer` is who wrote dir or the class
\* list when the Applier did not.
Commit(d, writer) ==
  /\ lang' = d.lang
  /\ dir' = d.dir
  /\ marker' = d.marker
  /\ records' = d.records
  /\ lastWriter' = IF d.applied THEN "system" ELSE writer

Step(name, calls, n, escaped) ==
  /\ last' = name
  /\ hookLog' = calls
  /\ reconciles' = n
  /\ uncaught' = escaped
  /\ sweepFix' = NoFix
  /\ switcherValue' = null
  /\ probe' = null
  /\ answer' = FALSE

lifecycle == <<readyState, dclFired, scriptRan, dclListeners, exported>>
installs == <<initCount, attrObservers, bodyObservers, sweepTimers>>
page == <<translatePage, switcherExists, switcherHandlers, bannerPresent>>
dom == <<lang, dir, marker, records, lastWriter>>
widget == <<bodyPending, timers>>

\* ------------------------------------------------------------------- Init
Init ==
  /\ readyState = "loading"
  /\ dclFired = FALSE
  /\ scriptRan = FALSE
  /\ dclListeners = <<>>
  /\ exported = FALSE
  /\ lang \in LangValues
  /\ dir = "null"
  /\ marker = FALSE
  /\ translatePage \in HookValues
  /\ switcherExists \in BOOLEAN
  /\ switcherHandlers = 0
  /\ bannerPresent = FALSE
  /\ initCount = 0
  /\ attrObservers = 0
  /\ bodyObservers = 0
  /\ sweepTimers = 0
  /\ records = <<>>
  /\ bodyPending = FALSE
  /\ timers = 0
  /\ last = "load"
  /\ hookLog = <<>>
  /\ reconciles = 0
  /\ uncaught = "none"
  /\ sweepFix = NoFix
  /\ switcherValue = null
  /\ probe = null
  /\ answer = FALSE
  /\ lastWriter = "none"

\* ------------------------------------------------------------ the document
\* The parser reaches the end of the document.
ParsingDone ==
  /\ readyState = "loading"
  /\ readyState' = "interactive"
  /\ Step("parsed", <<>>, 0, "none")
  /\ UNCHANGED <<dclFired, scriptRan, dclListeners, exported, installs, page,
                 dom, widget>>

\* The load event: the document is complete.
LoadComplete ==
  /\ readyState = "interactive"
  /\ dclFired
  /\ readyState' = "complete"
  /\ Step("loaded", <<>>, 0, "none")
  /\ UNCHANGED <<dclFired, scriptRan, dclListeners, exported, installs, page,
                 dom, widget>>

\* The script's top level, whenever the page comes to execute it.  An
\* exception out of the immediate initRTLDetection() call ends the script
\* before the lines that follow it.
RunScript ==
  /\ ~scriptRan
  /\ scriptRan' = TRUE
  /\ IF readyState = "loading"
       THEN /\ dclListeners' = <<"initRTLDetection", "switcherSetup">>
            /\ exported' = TRUE
            /\ Step("script", <<>>, 0, "none")
            /\ UNCHANGED <<installs, dom>>
       ELSE \E r \in {initRTLDetection(Root, translatePage)} :
            /\ Commit(r.dom, lastWriter)
            /\ initCount' = initCount + 1
            /\ attrObservers' = attrObservers + r.installed
            /\ bodyObservers' = bodyObservers + r.installed
            /\ sweepTimers' = sweepTimers + r.installed
            /\ dclListeners' = IF r.threw THEN <<>> ELSE <<"switcherSetup">>
            /\ exported' = ~r.threw
            /\ Step("script", r.calls, r.n,
                    IF r.threw THEN "startup" ELSE "none")
  /\ UNCHANGED <<readyState, dclFired, page, widget>>

Registered(listener) ==
  \E i \in DOMAIN dclListeners : dclListeners[i] = listener

\* DOMContentLoaded is dispatched once, to the listeners registered by
\* then, in order; an exception in one listener does not stop the next.
DOMContentLoaded ==
  /\ readyState = "interactive"
  /\ ~dclFired
  /\ dclFired' = TRUE
  /\ IF Registered("initRTLDetection")
       THEN \E r \in {initRTLDetection(Root, translatePage)} :
            /\ Commit(r.dom, lastWriter)
            /\ initCount' = initCount + 1
            /\ attrObservers' = attrObservers + r.installed
            /\ bodyObservers' = bodyObservers + r.installed
            /\ sweepTimers' = sweepTimers + r.installed
            /\ Step("dcl", r.calls, r.n,
                    IF r.threw THEN "startup" ELSE "none")
       ELSE /\ Step("dcl", <<>>, 0, "none")
            /\ UNCHANGED <<installs, dom>>
  /\ switcherHandlers' =
       IF Registered("switcherSetup") /\ switcherExists
         THEN switcherHandlers + 1
         ELSE switcherHandlers
  /\ UNCHANGED <<readyState, scriptRan, dclListeners, exported, translatePage,
                 switcherExists, bannerPresent, widget>>


\* -------------------------------------------------------- external actors
\* A translation tool (or any page code) writes or removes the root's lang.
ExternalSetLang ==
  \E v \in LangValues :
    /\ Len(records) < MaxRecords
    /\ Commit(setAttribute(Root, "lang", v), lastWriter)
    /\ Step("setLang", <<>>, 0, "none")
    /\ UNCHANGED <<lifecycle, installs, page, widget>>

\* An external tool overwrites the root's dir.
ExternalSetDir ==
  \E v \in DirValues :
    /\ Commit(setAttribute(Root, "dir", v), "external")
    /\ Step("setDir", <<>>, 0, "none")
    /\ UNCHANGED <<lifecycle, installs, page, widget>>

\* An external edit of the root's class attribute.
ExternalSetClass ==
  \E b \in BOOLEAN :
    /\ Commit(classListSet(Root, b), "external")
    /\ Step("setClass", <<>>, 0, "none")
    /\ UNCHANGED <<lifecycle, installs, page, widget>>

\* The host page registers, replaces or removes window.translatePage.
SetHook ==
  \E h \in HookValues :
    /\ h # translatePage
    /\ translatePage' = h
    /\ Step("setHook", <<>>, 0, "none")
    /\ UNCHANGED <<lifecycle, installs, switcherExists, switcherHandlers,
                   bannerPresent, dom, widget>>

\* Children are inserted into or removed from the body; the translate
\* widget's banner frame may appear or disappear with them.
BodyMutation ==
  \E b \in BOOLEAN :
    /\ timers + (IF bodyPending THEN 1 ELSE 0) < MaxTimers
    /\ bannerPresent' = b
    /\ bodyPending' = (bodyObservers > 0)
    /\ Step("bodyMutation", <<>>, 0, "none")
    /\ UNCHANGED <<lifecycle, installs, translatePage, switcherExists,
                   switcherHandlers, dom, timers>>

\* Variant: a change listener that also applies the direction itself.
RECURSIVE changeListenersApplying(_, _, _)
changeListenersApplying(k, d, selectedLang) ==
  IF k = 0
    THEN d
    ELSE changeListenersApplying(
           k - 1,
           IF isRTLLanguage(selectedLang)
             THEN applyRTL(setAttribute(d, "lang", selectedLang))
             ELSE applyLTR(setAttribute(d, "lang", selectedLang)),
           selectedLang)

\* The user picks value v in the language switcher: every attached change
\* listener runs html.setAttribute('lang', this.value).
RECURSIVE changeListeners(_, _, _)
changeListeners(k, d, selectedLang) ==
  IF k = 0
    THEN d
    ELSE changeListeners(k - 1, setAttribute(d, "lang", selectedLang),
                         selectedLang)

SwitcherChange ==
  \E v \in LangValues \ {null} :
    /\ switcherExists
    /\ Len(records) < MaxRecords
    /\ Commit(changeListeners(switcherHandlers, Root, v), lastWriter)
    /\ last' = "switcher"
    /\ switcherValue' = v
    /\ hookLog' = <<>>
    /\ reconciles' = 0
    /\ uncaught' = "none"
    /\ sweepFix' = NoFix
    /\ probe' = null
    /\ answer' = FALSE
    /\ UNCHANGED <<lifecycle, installs, page, widget>>

\* ------------------------------------------- window.RTLDetector, by hand
ManualApplyRTL ==
  /\ exported
  /\ Commit(applyRTL(Root), lastWriter)
  /\ Step("manualRTL", <<>>, 0, "none")
  /\ UNCHANGED <<lifecycle, installs, page, widget>>

ManualApplyLTR ==
  /\ exported
  /\ Commit(applyLTR(Root), lastWriter)
  /\ Step("manualLTR", <<>>, 0, "none")
  /\ UNCHANGED <<lifecycle, installs, page, widget>>

ManualDetect ==
  /\ exported
  /\ \E r \in {detectAndApplyLayout(Root, translatePage)} :
     /\ Commit(r.dom, lastWriter)
     /\ Step("manualDetect", r.calls, r.n,
             IF r.threw THEN "manual" ELSE "none")
  /\ UNCHANGED <<lifecycle, installs, page, widget>>

\* -------------------------------------------------------------- callbacks
\* The attribute observer's pending records are delivered as one batch.
AttrWatchDeliver ==
  /\ records # <<>>
  /\ \E r \in {observerCallback(records, [Root EXCEPT !.records = <<>>],
                                 translatePage)} :
     /\ Commit(r.dom, lastWriter)
     /\ Step("attrWatch", r.calls, r.n,
             IF r.threw THEN "attrWatch" ELSE "none")
  /\ UNCHANGED <<lifecycle, installs, page, widget>>

\* Variant: the callback schedules when the element is not found.
bodyObserverCallbackNegated(translateElement, pending) ==
  IF ~translateElement THEN pending + 1 ELSE pending

\* The body observer's callback: querySelector('.goog-te-banner-frame'),
\* and a 500ms one-shot reconcile when it finds the element.  `pending` is
\* the number of such timeouts already waiting.
bodyObserverCallback(translateElement, pending) ==
  IF translateElement THEN pending + 1 ELSE pending

\* A batch of body mutations is delivered to the body observer.
BodyWatchDeliver ==
  /\ bodyPending
  /\ bodyPending' = FALSE
  /\ timers' = bodyObserverCallback(bannerPresent, timers)
  /\ Step("bodyWatch", <<>>, 0, "none")
  /\ UNCHANGED <<lifecycle, installs, page, dom>>

\* A deferred reconcile comes due.
TimerFire ==
  /\ timers > 0
  /\ timers' = timers - 1
  /\ \E r \in {detectAndApplyLayout(Root, translatePage)} :
     /\ Commit(r.dom, lastWriter)
     /\ Step("timer", r.calls, r.n, IF r.threw THEN "timer" ELSE "none")
  /\ UNCHANGED <<lifecycle, installs, page, bodyPending>>

\* One tick of the setInterval sweep.
SweepTick ==
  /\ sweepTimers > 0
  /\ \E r \in {sweep(Root, translatePage)} :
     /\ Commit(r.dom, lastWriter)
     /\ last' = "sweep"
     /\ hookLog' = r.calls
     /\ reconciles' = r.n
     /\ uncaught' = IF r.threw THEN "sweep" ELSE "none"
     /\ sweepFix' = [op  |-> IF r.dom.applied THEN r.dom.dir ELSE "none",
                     was |-> dir,
                     by  |-> lastWriter]
     /\ switcherValue' = null
     /\ probe' = null
     /\ answer' = FALSE
  /\ UNCHANGED <<lifecycle, installs, page, widget>>

\* ---------------------------------------------------------- specification
Next ==
  \/ ParsingDone
  \/ LoadComplete
  \/ RunScript
  \/ DOMContentLoaded
  \/ ExternalSetLang
  \/ ExternalSetDir
  \/ ExternalSetClass
  \/ SetHook
  \/ BodyMutation
  \/ SwitcherChange
  \/ ManualApplyRTL
  \/ ManualApplyLTR
  \/ ManualDetect
  \/ AttrWatchDeliver
  \/ BodyWatchDeliver
  \/ TimerFire
  \/ SweepTick

Spec == Init /\ [][Next]_vars

\* The host delivers the mutation records an observer holds: a batch that
\* is pending does not stay pending forever.
FairDeliverSpec == Spec /\ WF_vars(AttrWatchDeliver)

\* The host runs a timeout that has come due.
FairTimerSpec == Spec /\ WF_vars(TimerFire)

\* ------------------------------------------------- the classifier alone
\* The characters of the codes handed to isRTLLanguage directly: letters in
\* both cases and the subtag separator.
Alphabet == {"a", "r", "c", "A", "R", "-"}

\* null, the empty string and every string over Alphabet up to MaxCodeLen.
Codes == {null} \cup UNION {[1..n -> Alphabet] : n \in 0..MaxCodeLen}

\* One call of window.RTLDetector.isRTLLanguage(c).
Classify ==
  \E c \in Codes :
    /\ probe' = c
    /\ answer' = isRTLLanguage(c)
    /\ last' = "classify"
    /\ hookLog' = <<>>
    /\ reconciles' = 0
    /\ uncaught' = "none"
    /\ sweepFix' = NoFix
    /\ switcherValue' = null
    /\ UNCHANGED <<lifecycle, installs, page, dom, widget>>

ClassifyInit ==
  /\ Init
  /\ lang = en
  /\ translatePage = "absent"
  /\ switcherExists = FALSE

ClassifyNext == Classify

\* The classifier applied to every code of Codes.
ClassifySpec == ClassifyInit /\ [][ClassifyNext]_vars

TypeOK ==
  /\ readyState \in {"loading", "interactive", "complete"}
  /\ lang \in LangValues
  /\ dir \in DirValues \cup {"null"}
  /\ marker \in BOOLEAN
  /\ translatePage \in HookValues
  /\ Len(records) <= MaxRecords
  /\ timers \in 0..MaxTimers
  /\ initCount \in 0..1


\* ================================================================= claims
\* The direction the classifier's verdict for language l asks for.
Verdict(l) == IF isRTLLanguage(l) THEN "rtl" ELSE "ltr"

\* A step that wrote the root's lang while the attribute observer watched.
LangWritten ==
  /\ attrObservers > 0
  /\ \/ last = "setLang"
     \/ last = "switcher" /\ switcherHandlers > 0

\* C1: with dir and the class list left to this system (external actors
\* write lang only), the state right after a sweep tick has dir "rtl" when
\* isRTLLanguage(lang) and "ltr" otherwise.
C1_SweepRestoresVerdict ==
  [][(last' = "sweep" /\ lastWriter # "external") => dir' = Verdict(lang')]_vars

\* A sweep tick found dir, last written by the Applier, out of line with an
\* externally written RTL language, and applied RTL.
C1_Witness ==
  /\ last = "sweep"
  /\ sweepFix = [op |-> "rtl", was |-> "ltr", by |-> "system"]
  /\ lang = heIL
  /\ dir = "rtl"

\* C2: no exception of the translation hook leaves detectAndApplyLayout, so
\* none reaches startup, the attribute-watch callback, the deferred timer or
\* a manual caller.
C2_HookFailureIsolated == uncaught = "none"

\* C3: a startup reconcile, also one whose hook threw, is followed by the
\* installation of the attribute watch, the widget watch and the sweep.
C3_WatchesSurviveThrowingHook ==
  initCount > 0 =>
    /\ attrObservers = initCount
    /\ bodyObservers = initCount
    /\ sweepTimers = initCount

\* C4: while no external actor has written dir or the class list since the
\* Applier last did, the marker class is present iff dir is "rtl".
C4_MarkerMirrorsDir ==
  lastWriter # "external" => (marker <=> dir = "rtl")

\* The Applier has put the marker on together with dir "rtl".
C4_Witness ==
  /\ lastWriter = "system"
  /\ dir = "rtl"
  /\ marker
  /\ last \in {"sweep", "manualRTL", "attrWatch"}

\* C5: a write of lang under an installed attribute observer leads to the
\* state right after the attribute-watch callback, in which
\* detectAndApplyLayout has run, dir and the marker are the verdict for the
\* current lang, and the hook, if registered, was called with the current
\* lang.
C5_LangWriteLeadsToReconcile ==
  LangWritten ~>
    /\ last = "attrWatch"
    /\ reconciles >= 1
    /\ dir = Verdict(lang)
    /\ marker = isRTLLanguage(lang)
    /\ translatePage # "absent" =>
         /\ hookLog # <<>>
         /\ \A i \in DOMAIN hookLog : hookLog[i].arg = lang

\* The attribute watch reconciled for lang "ar" and called the hook with it.
C5_Witness ==
  /\ last = "attrWatch"
  /\ lang = ar
  /\ dir = "rtl"
  /\ marker
  /\ translatePage = "ok"
  /\ hookLog # <<>>
  /\ hookLog[1].arg = ar

\* C6: only a step that writes lang adds to what the attribute-watch
\* callback will be called for, and a delivery runs detectAndApplyLayout and
\* the hook at most once per pending lang record: no write of dir or of the
\* class attribute, by the Applier or by anyone else, makes the
\* attribute-watch path reconcile.
C6_OnlyLangTriggersWatch ==
  [][/\ last' \notin {"setLang", "switcher"} => Len(records') <= Len(records)
     /\ last' = "attrWatch" =>
          /\ reconciles' <= Len(SelectSeq(records, LAMBDA a : a = "lang"))
          /\ Len(hookLog') <= Len(SelectSeq(records, LAMBDA a : a = "lang"))
    ]_vars

\* The class attribute was edited under an installed observer and nothing
\* is pending for delivery.
C6_Witness ==
  /\ last = "setClass"
  /\ attrObservers > 0
  /\ records = <<>>

\* C7: right after a sweep tick, dir is "rtl" iff isRTLLanguage(lang),
\* whatever an external actor had put into dir; and when the tick applied
\* RTL the marker is present.
C7_SweepHealsForcedDir ==
  [][last' = "sweep" =>
       /\ (dir' = "rtl") <=> isRTLLanguage(lang')
       /\ sweepFix'.op = "rtl" => marker'
    ]_vars

\* An external actor forced dir to "ltr" under lang "ar"; the tick put it
\* back to "rtl".
C7_Witness ==
  /\ last = "sweep"
  /\ sweepFix = [op |-> "rtl", was |-> "ltr", by |-> "external"]
  /\ lang = ar
  /\ dir = "rtl"
  /\ marker

\* C8: a sweep tick makes no call of the translation hook and runs no
\* detectAndApplyLayout; every hook call of a step is made by a
\* detectAndApplyLayout of that step.
C8_SweepNeverTranslates ==
  /\ last = "sweep" => hookLog = <<>> /\ reconciles = 0
  /\ Len(hookLog) <= reconciles

\* A tick applied a direction while a hook was registered.
C8_Witness ==
  /\ last = "sweep"
  /\ sweepFix.op # "none"
  /\ translatePage # "absent"
  /\ hookLog = <<>>

\* C9: initRTLDetection never runs twice, and once the script has executed
\* and DOMContentLoaded has passed there has been exactly one startup
\* reconcile, and one attribute observer, one body observer and one sweep
\* timer are installed.
C9_InitExactlyOnce ==
  /\ initCount <= 1
  /\ (scriptRan /\ dclFired) =>
       /\ initCount = 1
       /\ attrObservers = 1
       /\ bodyObservers = 1
       /\ sweepTimers = 1

\* C10: once the script has executed and DOMContentLoaded has passed, an
\* existing language switcher has exactly one change handler (stated for
\* the startups whose reconcile returned normally).
C10_SwitcherAttachedOnce ==
  (scriptRan /\ dclFired /\ switcherExists /\ attrObservers = initCount) =>
    switcherHandlers = 1


\* C11: a change event on the switcher with value v writes v to lang (once
\* per attached listener, each write seen by the attribute observer) and
\* changes nothing else: dir, the marker, the hook, the pending timers and
\* the installations are as before, and no detectAndApplyLayout ran.
C11_SwitcherWritesLangOnly ==
  [][last' = "switcher" =>
       /\ lang' = IF switcherHandlers > 0 THEN switcherValue' ELSE lang
       /\ records' = records \o
            [i \in 1..(IF attrObservers > 0 THEN switcherHandlers ELSE 0)
               |-> "lang"]
       /\ dir' = dir
       /\ marker' = marker
       /\ lastWriter' = lastWriter
       /\ hookLog' = <<>>
       /\ reconciles' = 0
       /\ UNCHANGED <<lifecycle, installs, page, widget>>
    ]_vars

\* The listener wrote "ar" over an LTR page: lang is "ar", dir is still
\* "ltr" without the marker, and the observer's record awaits delivery.
C11_Witness ==
  /\ last = "switcher"
  /\ switcherHandlers = 1
  /\ switcherValue = ar
  /\ lang = ar
  /\ dir = "ltr"
  /\ ~marker
  /\ records = <<"lang">>


\* C12: a delivery of body mutations that finds the banner frame leads to
\* the state right after a deferred reconcile, where dir and the marker are
\* the verdict for the lang of that moment; a delivery adds one pending
\* timeout when the frame is present and none when it is absent, and a
\* timeout runs detectAndApplyLayout once and is gone.
C12_WidgetWatchReconciles ==
  /\ (last = "bodyWatch" /\ bannerPresent) ~>
       /\ last = "timer"
       /\ reconciles = 1
       /\ dir = Verdict(lang)
       /\ marker = isRTLLanguage(lang)
  /\ [][/\ last' = "bodyWatch" =>
             timers' = timers + (IF bannerPresent THEN 1 ELSE 0)
        /\ last' = "timer" => timers' = timers - 1 /\ reconciles' = 1
       ]_vars

\* A deferred reconcile ran with the banner in the page and applied RTL for
\* lang "ar".
C12_Witness ==
  /\ last = "timer"
  /\ bannerPresent
  /\ reconciles = 1
  /\ lang = ar
  /\ dir = "rtl"
  /\ marker


\* The pair the Applier owns.
Layout(d) == <<d.dir, d.marker>>

\* C13: from the root's current state, whatever dir and marker are, a second
\* applyRTL leaves (dir, marker) as the first did, likewise applyLTR, and a
\* second detectAndApplyLayout with lang unchanged likewise.
C13_ApplierIdempotent ==
  /\ Layout(applyRTL(applyRTL(Root))) = Layout(applyRTL(Root))
  /\ Layout(applyLTR(applyLTR(Root))) = Layout(applyLTR(Root))
  /\ \A h \in HookValues :
       Layout(detectAndApplyLayout(detectAndApplyLayout(Root, h).dom, h).dom)
         = Layout(detectAndApplyLayout(Root, h).dom)

\* applyRTL has just been called by hand under a lang that is not RTL: the
\* root has dir "rtl" and the marker, the layout a second call is compared to.
C13_Witness ==
  /\ last = "manualRTL"
  /\ dir = "rtl"
  /\ marker
  /\ ~isRTLLanguage(lang)


\* The fourteen subtags the claim names.
ClaimedSubtags ==
  { <<"a", "r">>, <<"a", "r", "c">>, <<"d", "v">>, <<"f", "a">>,
    <<"h", "a">>, <<"h", "e">>, <<"k", "h", "w">>, <<"k", "s">>,
    <<"k", "u">>, <<"p", "s">>, <<"s", "d">>, <<"u", "r">>,
    <<"u", "z">>, <<"y", "i">> }

\* Code c, lower-cased, starts with subtag t and either ends there or goes
\* on with '-': t is what stands before the first '-'.
PrimaryIs(c, t) ==
  /\ Len(c) >= Len(t)
  /\ \A i \in 1..Len(t) : toLowerCase(c)[i] = t[i]
  /\ Len(c) = Len(t) \/ c[Len(t) + 1] = "-"

\* C14: isRTLLanguage answers false for null and for the empty string; for
\* any other code it answers true exactly when the lower-cased part before
\* the first '-' is one of the fourteen subtags; and every code with the
\* same lower-cased primary subtag gets the same answer.
C14_ClassifierBySubtag ==
  last = "classify" =>
    /\ Cardinality(RTL_LANGUAGES) = 14
    /\ probe \in {null, <<>>} => answer = FALSE
    /\ probe \notin {null, <<>>} =>
         /\ answer <=> \E t \in ClaimedSubtags : PrimaryIs(probe, t)
         /\ \A c \in Codes \ {null, <<>>} :
              firstSegment(toLowerCase(c)) = firstSegment(toLowerCase(probe))
                => isRTLLanguage(c) = answer

\* The classifier was asked about "AR-" and answered true.
C14_Witness ==
  /\ last = "classify"
  /\ probe = <<"A", "R", "-">>
  /\ answer = TRUE


\* C15: no operation throws because an optional collaborator is missing (an
\* exception leaves an operation only when a registered hook threw it), a
\* missing hook is not called, a missing switcher gets no listener, and with
\* the hook missing every reconcile and every sweep tick still leaves dir
\* and the marker as the classifier says and the startup installs its
\* watches.
C15_MissingCollaboratorsSkipped ==
  /\ uncaught # "none" => translatePage = "throws"
  /\ translatePage = "absent" => hookLog = <<>>
  /\ ~switcherExists => switcherHandlers = 0
  /\ (translatePage = "absent" /\ reconciles >= 1) =>
       /\ dir = Verdict(lang)
       /\ marker = isRTLLanguage(lang)
  /\ (translatePage = "absent" /\ last = "sweep") =>
       ((dir = "rtl") <=> isRTLLanguage(lang))
  /\ (translatePage = "absent" /\ last \in {"script", "dcl"}
        /\ reconciles = 1) =>
       /\ attrObservers = 1
       /\ bodyObservers = 1
       /\ sweepTimers = 1

\* The attribute watch reconciled on a page with no hook, no switcher and
\* no banner frame.
C15_Witness ==
  /\ last = "attrWatch"
  /\ reconciles >= 1
  /\ translatePage = "absent"
  /\ ~switcherExists
  /\ ~bannerPresent
  /\ dclFired
  /\ lang = ar
  /\ dir = "rtl"
  /\ marker


\* C16: every hook call of a step was made with the current lang at a moment
\* when dir and the marker already were the verdict for that lang, and a
\* step makes one hook call per detectAndApplyLayout it runs when a hook is
\* registered and none otherwise.
C16_ApplierBeforeHook ==
  /\ \A i \in DOMAIN hookLog :
       /\ hookLog[i].arg = lang
       /\ hookLog[i].dir = Verdict(hookLog[i].arg)
       /\ hookLog[i].marker = isRTLLanguage(hookLog[i].arg)
  /\ Len(hookLog) = IF translatePage = "absent" THEN 0 ELSE reconciles

\* The attribute watch ran detectAndApplyLayout for two records and the hook
\* was called twice with "ar", each time with dir "rtl" and the marker set.
C16_Witness ==
  /\ last = "attrWatch"
  /\ translatePage = "ok"
  /\ reconciles = 2
  /\ hookLog = <<[arg |-> ar, dir |-> "rtl", marker |-> TRUE],
                 [arg |-> ar, dir |-> "rtl", marker |-> TRUE]>>


\* The callbacks the host runs to completion, one at a time.
Callbacks == {"script", "dcl", "attrWatch", "timer", "sweep"}

\* C17: whenever a callback applies a direction, in whatever order the
\* callbacks and the external lang writes came, it is the direction for the
\* lang of that moment; and after a sweep tick that leaves no record, no
\* body batch and no timeout pending, with dir left to this system, dir is
\* the verdict for the lang then current.
C17_NoStaleDirection ==
  [][/\ (last' \in Callbacks /\ (reconciles' > 0 \/ sweepFix'.op # "none")) =>
          /\ lang' = lang
          /\ dir' = Verdict(lang')
          /\ marker' = isRTLLanguage(lang')
     /\ (last' = "sweep" /\ records' = <<>> /\ timers' = 0 /\ ~bodyPending'
           /\ lastWriter # "external") =>
          dir' = Verdict(lang')
    ]_vars

\* With the attribute watch, the switcher listener and the banner frame all
\* in play, a sweep tick has run after everything pending was delivered and
\* dir is "rtl" for lang "HE-il".
C17_Witness ==
  /\ last = "sweep"
  /\ records = <<>>
  /\ timers = 0
  /\ ~bodyPending
  /\ sweepFix.by = "system"
  /\ attrObservers = 1
  /\ switcherHandlers = 1
  /\ bannerPresent
  /\ lang = heIL
  /\ dir = "rtl"


\* C18: a sweep tick that finds dir agreeing with the verdict (dir "rtl" and
\* an RTL lang, or dir not "rtl" and a lang that is not RTL) calls no Applier
\* and leaves dir, the marker class and lang as they were; a tick that finds
\* them disagreeing calls one.
C18_SweepWritesOnlyOnMismatch ==
  [][last' = "sweep" =>
       IF (dir = "rtl") <=> isRTLLanguage(lang)
         THEN /\ sweepFix'.op = "none"
              /\ dir' = dir
              /\ marker' = marker
              /\ lang' = lang
              /\ records' = records
         ELSE sweepFix'.op \in {"rtl", "ltr"}
    ]_vars

\* A tick has just passed over a page with lang "en", dir "auto" and the
\* marker class put there by someone else, and touched none of them.
C18_Witness ==
  /\ last = "sweep"
  /\ sweepFix = [op |-> "none", was |-> "auto", by |-> "external"]
  /\ lang = en
  /\ dir = "auto"
  /\ marker


\* The steps in which applyRTL or applyLTR can run.
ApplierSteps ==
  {"script", "dcl", "manualRTL", "manualLTR", "manualDetect", "attrWatch",
   "timer", "sweep"}

\* C19: of this system's operations only the switcher's change handler
\* writes lang: the Appliers, the reconcile, the attribute watch, the widget
\* watch, its timeout and the sweep leave lang as it was. dir changes only
\* through applyRTL or applyLTR (or a write from outside the system), and
\* then to "rtl" or "ltr".
C19_LangAndDirWriters ==
  [][/\ lang' # lang => last' \in {"setLang", "switcher"}
     /\ last' \in ApplierSteps \cup {"bodyWatch"} => lang' = lang
     /\ (dir' # dir /\ last' # "setDir") =>
          /\ last' \in ApplierSteps
          /\ lastWriter' = "system"
          /\ dir' \in {"rtl", "ltr"}
    ]_vars

\* The attribute watch has reconciled a page whose lang is "HE-il": dir was
\* written by the Applier and lang still reads "HE-il", in the case it had.
C19_Witness ==
  /\ last = "attrWatch"
  /\ reconciles = 1
  /\ lastWriter = "system"
  /\ lang = heIL
  /\ dir = "rtl"
  /\ marker


\* Work awaiting a callback: attribute records, a body batch, timeouts.
Pending == Len(records) + timers + (IF bodyPending THEN 1 ELSE 0)

\* C20: the writes of a reconcile or of the sweep (dir, the class) queue no
\* attribute record and no body batch, so no step of this system adds
\* pending work: an attribute delivery and a timeout run at most as many
\* reconciles as the pending work they remove, the sweep and the body
\* delivery run none, each startup path runs once; and a pending timeout
\* does come due.
C20_ReconcileChainsEnd ==
  /\ [][/\ last' \in ApplierSteps \cup {"bodyWatch"} =>
             /\ Len(records') <= Len(records)
             /\ bodyPending' => bodyPending
             /\ Pending' <= Pending
        /\ last' \in {"attrWatch", "timer"} =>
             /\ reconciles' <= Pending - Pending'
             /\ Len(hookLog') <= reconciles'
        /\ last' = "attrWatch" => records' = <<>>
        /\ last' \in {"sweep", "bodyWatch"} => reconciles' = 0
        /\ last' = "script" => (~scriptRan /\ scriptRan' /\ reconciles' <= 1)
        /\ last' = "dcl" => (~dclFired /\ dclFired' /\ reconciles' <= 1)
       ]_vars
  /\ timers > 0 ~> last = "timer"

\* With both observers installed, the last timeout has run its reconcile,
\* which wrote dir "rtl" and the class, and nothing is pending after it.
C20_Witness ==
  /\ last = "timer"
  /\ reconciles = 1
  /\ attrObservers = 1
  /\ bodyObservers = 1
  /\ lastWriter = "system"
  /\ dir = "rtl"
  /\ marker
  /\ Pending = 0

====
